---- MODULE Spec2Model ----
(***************************************************************************)
(* A model of the learn-go authentication service: the AuthService         *)
(* (Register, Login, generateToken), the UserRepository over a table with  *)
(* a unique index on email, and the AuthMiddleware that gates requests.    *)
(***************************************************************************)
EXTENDS Integers, Sequences, FiniteSets, TLC

VARIABLES
    store,       \* the users table: a set of User records
    now,         \* the wall clock, in ticks
    reg,         \* per caller: the position of its Register call
    registered,  \* history: the inputs and ids of the Register calls that returned a user
    last,        \* history: the last completed call, its inputs and what it returned
    held         \* the successful Login whose token the client keeps, if any

vars == <<store, now, reg, registered, last, held>>

----------------------------------------------------------------------------
(* Bounds of the model. *)

\* The clock runs from 1 to MaxTime (0 is the zero time.Time of an unset timestamp).
MaxTime == 3

\* config.TokenExipryDur (24 hours), scaled to clock ticks.
TokenExpiryTicks == 2

\* The callers that may run Register concurrently.
Procs == {"p1", "p2"}

Emails == {"a@x.com", "b@x.com"}

\* A password longer than bcrypt's 72 byte limit (73 bytes).
LongPassword == "0123456789012345678901234567890123456789012345678901234567890123456789012"

Passwords == {"password1", "password2", LongPassword}

FullNames == {"A"}

\* The salts bcrypt may draw.
Salts == {"s1"}

----------------------------------------------------------------------------
(* Values. *)

\* A nil error.
Nil == "<nil>"

\* A nil *model.User.
NilUser == [nil |-> TRUE]

\* The secret of the running configuration (config.JWTSecret).
JWTSecret == "test-secret"

\* gorm.ErrRecordNotFound, what First returns when no row matches.
ErrRecordNotFound == "record not found"

\* sql.ErrConnDone, a lookup or insert failing for a reason other than not-found.
ErrConnDone == "sql: connection is already closed"

\* What postgres answers to an insert that violates the unique index on email.
ErrUniqueViolation == "ERROR: duplicate key value violates unique constraint \"idx_users_email\" (SQLSTATE 23505)"

\* The outcomes of the connection for one statement: it works, or it fails.
DBOutcomes == {Nil, ErrConnDone}

\* What the handlers pass to the service: bodies that passed the binding rules
\* (email: required,email; password: required,min=8 or required; full_name: required).
RegisterInputs == [Email : Emails, Password : Passwords, FullName : FullNames]

LoginInputs == [Email : Emails, Password : Passwords]

\* uuid.UUID.String(): the text form of an id. The zero id is the nil UUID.
UUIDString(id) == IF id = 0 THEN "00000000-0000-0000-0000-000000000000"
                  ELSE "uuid-" \o ToString(id)

----------------------------------------------------------------------------
(* The credential hasher: golang.org/x/crypto/bcrypt. *)

\* bcrypt.GenerateFromPassword: a self-contained hash embedding version, cost
\* and salt; passwords longer than 72 bytes are rejected.
BcryptGenerate(password, salt) ==
    IF Len(password) > 72
    THEN [hash |-> "", err |-> "bcrypt: password length exceeds 72 bytes"]
    ELSE [hash |-> "$2a$10$" \o salt \o password, err |-> Nil]

\* bcrypt.CompareHashAndPassword: re-hash the password under the salt the
\* hash embeds and compare; nil on a match, an error otherwise.
BcryptCompare(hash, password) ==
    IF \E salt \in Salts : BcryptGenerate(password, salt) = [hash |-> hash, err |-> Nil]
    THEN Nil
    ELSE "crypto/bcrypt: hashedPassword is not the hash of the given password"

----------------------------------------------------------------------------
(* The token codec: github.com/golang-jwt/jwt/v4 with jwt.MapClaims. *)

\* Claim values as JSON values.
Str(s) == [t |-> "str", s |-> s]
Num(n) == [t |-> "num", n |-> n]
Null == [t |-> "null"]
Absent == [t |-> "absent"]

\* Strings that requests carry are sequences of symbols: a symbol is one
\* character, or the compact serialization of a token (header.claims.signature,
\* which holds no space) taken as a whole.
Ch(c) == [ch |-> c]

Compact(token) == <<[tok |-> token]>>

\* Token.SignedString: the compact serialization of the token; the signature
\* binds the key to the signed header and claims.
SignedString(alg, claims, key) ==
    Compact([alg |-> alg, claims |-> claims,
             sig |-> [key |-> key, alg |-> alg, claims |-> claims]])

MutGenerateTokenEmailAsID(user, secret, t) ==
    SignedString("HS256",
                 [user_id |-> Str(user.Email),
                  email   |-> Str(user.Email),
                  exp     |-> Num(t + TokenExpiryTicks)],
                 secret)

MutGenerateTokenNoExpiry(user, secret, t) ==
    SignedString("HS256",
                 [user_id |-> Str(UUIDString(user.ID)),
                  email   |-> Str(user.Email),
                  exp     |-> Num(t)],
                 secret)

\* AuthService.generateToken at clock value t.
generateToken(user, secret, t) ==
    SignedString("HS256",
                 [user_id |-> Str(UUIDString(user.ID)),
                  email   |-> Str(user.Email),
                  exp     |-> Num(t + TokenExpiryTicks)],
                 secret)

----------------------------------------------------------------------------
(* The identity store: UserRepository over the users table. *)

\* UserRepository.FindByEmail: First on "email = ?"; dbErr is the outcome of
\* the connection for this statement.
FindByEmail(users, email, dbErr) ==
    IF dbErr # Nil THEN [user |-> NilUser, err |-> dbErr]
    ELSE IF \E u \in users : u.Email = email
         THEN [user |-> CHOOSE u \in users : u.Email = email, err |-> Nil]
         ELSE [user |-> NilUser, err |-> ErrRecordNotFound]

MutCreateUpsert(users, user, dbErr, t) ==
    IF dbErr # Nil THEN [users |-> users, user |-> user, err |-> dbErr]
    ELSE LET stored == [user EXCEPT !.ID = Cardinality(users) + 1,
                                    !.CreatedAt = t, !.UpdatedAt = t]
         IN [users |-> {u \in users : u.Email # user.Email} \cup {stored},
             user |-> stored, err |-> Nil]

MutCreateNoUniqueIndex(users, user, dbErr, t) ==
    IF dbErr # Nil THEN [users |-> users, user |-> user, err |-> dbErr]
    ELSE LET stored == [user EXCEPT !.ID = Cardinality(users) + 1,
                                    !.CreatedAt = t, !.UpdatedAt = t]
         IN [users |-> users \cup {stored}, user |-> stored, err |-> Nil]

\* UserRepository.Create: one INSERT. The table has a unique index on email
\* (model.User, uniqueIndex); the database fills in the id (gen_random_uuid)
\* and the timestamps and gorm writes them back into the struct.
Create(users, user, dbErr, t) ==
    IF dbErr # Nil THEN [users |-> users, user |-> user, err |-> dbErr]
    ELSE IF \E u \in users : u.Email = user.Email
         THEN [users |-> users, user |-> user, err |-> ErrUniqueViolation]
         ELSE LET stored == [user EXCEPT !.ID = Cardinality(users) + 1,
                                         !.CreatedAt = t, !.UpdatedAt = t]
              IN [users |-> users \cup {stored}, user |-> stored, err |-> Nil]

----------------------------------------------------------------------------
(* AuthService. *)

Idle == [pc |-> "idle"]

\* What a completed Register call leaves in the history.
RegisterReturn(input, found, hashed, creates, createErr, user, err) ==
    [op |-> "Register", input |-> input,
     lookupUser |-> found.user, lookupErr |-> found.err,
     hashed |-> hashed, creates |-> creates, createErr |-> createErr,
     user |-> user, err |-> err]

MutRegisterBeginNoDuplicateCheck(users, input, dbErr, salt) ==
    LET found == FindByEmail(users, input.Email, dbErr)
        hashed == BcryptGenerate(input.Password, salt)
        user == [ID |-> 0, Email |-> input.Email, PasswordHash |-> hashed.hash,
                 FullName |-> input.FullName, CreatedAt |-> 0, UpdatedAt |-> 0]
    IN IF hashed.err # Nil
       THEN [ret |-> TRUE,
             out |-> RegisterReturn(input, found, TRUE, 0, Nil, NilUser,
                                    "failed to hash password")]
       ELSE [ret |-> FALSE, input |-> input, found |-> found, user |-> user]

MutRegisterBeginPlaintext(users, input, dbErr, salt) ==
    LET found == FindByEmail(users, input.Email, dbErr)
        existingUser == found.user
        hashed == BcryptGenerate(input.Password, salt)
        user == [ID |-> 0, Email |-> input.Email, PasswordHash |-> input.Password,
                 FullName |-> input.FullName, CreatedAt |-> 0, UpdatedAt |-> 0]
    IN IF existingUser # NilUser
       THEN [ret |-> TRUE,
             out |-> RegisterReturn(input, found, FALSE, 0, Nil, NilUser,
                                    "email already registered")]
       ELSE IF hashed.err # Nil
       THEN [ret |-> TRUE,
             out |-> RegisterReturn(input, found, TRUE, 0, Nil, NilUser,
                                    "failed to hash password")]
       ELSE [ret |-> FALSE, input |-> input, found |-> found, user |-> user]

\* AuthService.Register up to the call of Create: the lookup, the duplicate
\* check (the lookup's error is discarded) and the hashing. Either the call
\* returns here (ret), or it goes on to Create with the user it built.
RegisterBegin(users, input, dbErr, salt) ==
    LET found == FindByEmail(users, input.Email, dbErr)
        existingUser == found.user
        hashed == BcryptGenerate(input.Password, salt)
        user == [ID |-> 0, Email |-> input.Email, PasswordHash |-> hashed.hash,
                 FullName |-> input.FullName, CreatedAt |-> 0, UpdatedAt |-> 0]
    IN IF existingUser # NilUser
       THEN [ret |-> TRUE,
             out |-> RegisterReturn(input, found, FALSE, 0, Nil, NilUser,
                                    "email already registered")]
       ELSE IF hashed.err # Nil
       THEN [ret |-> TRUE,
             out |-> RegisterReturn(input, found, TRUE, 0, Nil, NilUser,
                                    "failed to hash password")]
       ELSE [ret |-> FALSE, input |-> input, found |-> found, user |-> user]

MutRegisterEndReturnsUnsavedUser(users, pending, dbErr, t) ==
    LET c == Create(users, pending.user, dbErr, t)
    IN IF c.err # Nil
       THEN [users |-> c.users,
             out |-> RegisterReturn(pending.input, pending.found, TRUE, 1, c.err,
                                    c.user, Nil)]
       ELSE [users |-> c.users,
             out |-> RegisterReturn(pending.input, pending.found, TRUE, 1, Nil,
                                    c.user, Nil)]

\* AuthService.Register from the call of Create to its return.
RegisterEnd(users, pending, dbErr, t) ==
    LET c == Create(users, pending.user, dbErr, t)
    IN IF c.err # Nil
       THEN [users |-> c.users,
             out |-> RegisterReturn(pending.input, pending.found, TRUE, 1, c.err,
                                    NilUser, c.err)]
       ELSE [users |-> c.users,
             out |-> RegisterReturn(pending.input, pending.found, TRUE, 1, Nil,
                                    c.user, Nil)]

\* The history of the Register calls that returned a user.
Registered(history, out) ==
    IF out.err = Nil
    THEN history \cup {[Email |-> out.input.Email, Password |-> out.input.Password,
                        FullName |-> out.input.FullName, ID |-> out.user.ID]}
    ELSE history

\* A caller runs Register up to the call of Create.
RegisterFind(p) ==
    /\ reg[p].pc = "idle"
    /\ \E input \in RegisterInputs, dbErr \in DBOutcomes, salt \in Salts :
        LET b == RegisterBegin(store, input, dbErr, salt)
        IN IF b.ret
           THEN /\ last' = b.out
                /\ UNCHANGED reg
           ELSE /\ reg' = [reg EXCEPT ![p] = [pc |-> "create", input |-> b.input,
                                              found |-> b.found, user |-> b.user]]
                /\ UNCHANGED last
    /\ UNCHANGED <<store, now, registered, held>>

\* A caller runs the rest of Register: Create and the return.
RegisterCreate(p) ==
    /\ reg[p].pc = "create"
    /\ \E dbErr \in DBOutcomes :
        LET e == RegisterEnd(store, reg[p], dbErr, now)
        IN /\ store' = e.users
           /\ last' = e.out
           /\ registered' = Registered(registered, e.out)
    /\ reg' = [reg EXCEPT ![p] = Idle]
    /\ UNCHANGED <<now, held>>

\* A call of AuthService.Register that no other call interleaves with.
Register ==
    /\ \E input \in RegisterInputs, dbErr1 \in DBOutcomes, dbErr2 \in DBOutcomes,
          salt \in Salts :
        LET b == RegisterBegin(store, input, dbErr1, salt)
        IN IF b.ret
           THEN /\ last' = b.out
                /\ UNCHANGED <<store, registered>>
           ELSE LET e == RegisterEnd(store, b, dbErr2, now)
                IN /\ store' = e.users
                   /\ last' = e.out
                   /\ registered' = Registered(registered, e.out)
    /\ UNCHANGED <<now, reg, held>>

MutLoginResultRevealsMissingUser(users, input, dbErr, secret, t) ==
    LET found == FindByEmail(users, input.Email, dbErr)
    IN IF found.err # Nil
       THEN [token |-> <<>>, err |-> found.err]
       ELSE IF BcryptCompare(found.user.PasswordHash, input.Password) # Nil
       THEN [token |-> <<>>, err |-> "invalid credentials"]
       ELSE [token |-> generateToken(found.user, secret, t), err |-> Nil]

\* AuthService.Login: the result for one outcome of the lookup.
LoginResult(users, input, dbErr, secret, t) ==
    LET found == FindByEmail(users, input.Email, dbErr)
    IN IF found.err # Nil
       THEN [token |-> <<>>, err |-> "invalid credentials"]
       ELSE IF BcryptCompare(found.user.PasswordHash, input.Password) # Nil
       THEN [token |-> <<>>, err |-> "invalid credentials"]
       ELSE [token |-> generateToken(found.user, secret, t), err |-> Nil]

\* A call of AuthService.Login.
Login ==
    /\ \E input \in LoginInputs, dbErr \in DBOutcomes :
        LET found == FindByEmail(store, input.Email, dbErr)
            r == LoginResult(store, input, dbErr, JWTSecret, now)
        IN last' = [op |-> "Login", input |-> input, at |-> now,
                    lookupUser |-> found.user, lookupErr |-> found.err,
                    token |-> r.token, err |-> r.err]
    /\ UNCHANGED <<store, now, reg, registered, held>>

\* Time passes.
Tick ==
    /\ now < MaxTime
    /\ now' = now + 1
    /\ UNCHANGED <<store, reg, registered, last, held>>

----------------------------------------------------------------------------
(* jwt.Parse and the AuthMiddleware. *)

SP == Ch(" ")

\* The text "Bearer".
Bearer == <<Ch("B"), Ch("e"), Ch("a"), Ch("r"), Ch("e"), Ch("r")>>

\* strings.Split(s, sep) for a one-character separator: the pieces between
\* the separators, empty pieces included; a string without one is one piece.
RECURSIVE Split(_, _)
Split(s, sep) ==
    IF \A i \in 1..Len(s) : s[i] # sep
    THEN <<s>>
    ELSE LET i == CHOOSE k \in 1..Len(s) : s[k] = sep /\ \A j \in 1..(k - 1) : s[j] # sep
         IN <<SubSeq(s, 1, i - 1)>> \o Split(SubSeq(s, i + 1, Len(s)), sep)

\* The signing methods jwt/v4 registers.
SigningMethods == {"HS256", "HS384", "HS512", "none"}

MutVerifySignatureAnyKey(token, key) ==
    /\ token.alg \in {"HS256", "HS384", "HS512"}
    /\ "key" \in DOMAIN token.sig
    /\ token.sig.alg = token.alg
    /\ token.sig.claims = token.claims

\* SigningMethod.Verify with a []byte key: the HMAC methods recompute the
\* signature over the header and claims; "none" refuses every key but its
\* own marker value.
VerifySignature(token, key) ==
    /\ token.alg \in {"HS256", "HS384", "HS512"}
    /\ token.sig = [key |-> key, alg |-> token.alg, claims |-> token.claims]

MutMapClaimsValidInclusive(claims, t) ==
    \/ claims.exp = Absent
    \/ /\ claims.exp.t = "num"
       /\ \/ claims.exp.n = 0
          \/ t <= claims.exp.n

\* MapClaims.Valid at clock value t, for the time claim tokens here carry
\* (exp): an absent exp passes (it is not required), a numeric exp of 0 counts
\* as unset, any other numeric exp must be after t, and an exp that is not a
\* number fails.
MapClaimsValid(claims, t) ==
    \/ claims.exp = Absent
    \/ /\ claims.exp.t = "num"
       /\ \/ claims.exp.n = 0
          \/ t < claims.exp.n

\* jwt.Parse(tokenString, keyFunc) with the key function of the middleware,
\* which returns the secret whatever the token's header says.
JwtParse(tokenString, key, t) ==
    IF ~(Len(tokenString) = 1 /\ "tok" \in DOMAIN tokenString[1])
    THEN [Valid |-> FALSE, Claims |-> <<>>,
          err |-> "token contains an invalid number of segments"]
    ELSE LET token == tokenString[1].tok
         IN IF token.alg \notin SigningMethods
            THEN [Valid |-> FALSE, Claims |-> token.claims,
                  err |-> "signing method (alg) is unavailable."]
            ELSE IF ~MapClaimsValid(token.claims, t)
            THEN [Valid |-> FALSE, Claims |-> token.claims, err |-> "Token is expired"]
            ELSE IF ~VerifySignature(token, key)
            THEN [Valid |-> FALSE, Claims |-> token.claims, err |-> "signature is invalid"]
            ELSE [Valid |-> TRUE, Claims |-> token.claims, err |-> Nil]

MutAbortWithoutAbort(status, message, parsed) ==
    [status |-> status, error |-> message, next |-> TRUE, parsed |-> parsed,
     user_id |-> Absent, email |-> Absent]

\* c.JSON(status, gin.H{"error": message}); c.Abort(): nothing is set in the
\* context and the downstream handler does not run. parsed tells whether
\* jwt.Parse was called.
Abort(status, message, parsed) ==
    [status |-> status, error |-> message, next |-> FALSE, parsed |-> parsed,
     user_id |-> Absent, email |-> Absent]

\* c.Set("user_id", ...); c.Set("email", ...); c.Next(): the middleware writes
\* no response (status 0) and the downstream handler runs.
Continue(userID, email) ==
    [status |-> 0, error |-> "", next |-> TRUE, parsed |-> TRUE,
     user_id |-> userID, email |-> email]

MutAuthMiddlewareAllowsEmpty(jwtSecret, authHeader, t) ==
    LET parts == Split(authHeader, SP)
    IN IF authHeader = <<>>
       THEN Abort(401, "authorization header required", FALSE)
       ELSE IF Len(parts) # 2 \/ parts[1] # Bearer
       THEN Abort(401, "invalid authorization header format", FALSE)
       ELSE LET token == JwtParse(parts[2], jwtSecret, t)
            IN IF token.err # Nil \/ ~token.Valid
               THEN Abort(401, "invalid token", TRUE)
               ELSE LET userID == token.Claims.user_id
                        email == token.Claims.email
                    IN IF userID = Absent \/ email = Absent
                       THEN Abort(401, "invalid token claims", TRUE)
                       ELSE Continue(userID, email)

MutAuthMiddlewareFormatFirst(jwtSecret, authHeader, t) ==
    LET parts == Split(authHeader, SP)
    IN IF Len(parts) # 2 \/ parts[1] # Bearer
       THEN Abort(401, "invalid authorization header format", FALSE)
       ELSE IF authHeader = <<>>
       THEN Abort(401, "authorization header required", FALSE)
       ELSE LET token == JwtParse(parts[2], jwtSecret, t)
            IN IF token.err # Nil \/ ~token.Valid
               THEN Abort(401, "invalid token", TRUE)
               ELSE LET userID == token.Claims.user_id
                        email == token.Claims.email
                    IN IF userID = Absent \/ userID = Str("")
                          \/ email = Absent \/ email = Str("")
                       THEN Abort(401, "invalid token claims", TRUE)
                       ELSE Continue(userID, email)

MutAuthMiddlewareExtraParts(jwtSecret, authHeader, t) ==
    LET parts == Split(authHeader, SP)
    IN IF authHeader = <<>>
       THEN Abort(401, "authorization header required", FALSE)
       ELSE IF Len(parts) < 2 \/ parts[1] # Bearer
       THEN Abort(401, "invalid authorization header format", FALSE)
       ELSE LET token == JwtParse(parts[2], jwtSecret, t)
            IN IF token.err # Nil \/ ~token.Valid
               THEN Abort(401, "invalid token", TRUE)
               ELSE LET userID == token.Claims.user_id
                        email == token.Claims.email
                    IN IF userID = Absent \/ userID = Str("")
                          \/ email = Absent \/ email = Str("")
                       THEN Abort(401, "invalid token claims", TRUE)
                       ELSE Continue(userID, email)

\* The handler AuthMiddleware(jwtSecret) returns, on a request whose
\* Authorization header is authHeader (empty when the header is absent), at
\* clock value t. jwt.Parse yields MapClaims, so the type assertion on the
\* claims always succeeds.
AuthMiddleware(jwtSecret, authHeader, t) ==
    LET parts == Split(authHeader, SP)
    IN IF authHeader = <<>>
       THEN Abort(401, "authorization header required", FALSE)
       ELSE IF Len(parts) # 2 \/ parts[1] # Bearer
       THEN Abort(401, "invalid authorization header format", FALSE)
       ELSE LET token == JwtParse(parts[2], jwtSecret, t)
            IN IF token.err # Nil \/ ~token.Valid
               THEN Abort(401, "invalid token", TRUE)
               ELSE LET userID == token.Claims.user_id
                        email == token.Claims.email
                    IN IF userID = Absent \/ userID = Str("")
                          \/ email = Absent \/ email = Str("")
                       THEN Abort(401, "invalid token claims", TRUE)
                       ELSE Continue(userID, email)

\* The tokens a client may present: every header algorithm, identity claims
\* present, empty, absent or not a string, an expiry before, at or after the
\* clock or none, signed with the secret, with another key, carrying the
\* signature of other claims, or unsigned.
TokenAlgs == {"HS256", "HS384", "HS512", "none", "XS999"}

\* The empty third segment of a token that carries no signature.
NoSignature == [empty |-> TRUE]

UserIDClaims == {Absent, Null, Str(""), Str(UUIDString(1)), Num(7)}

EmailClaims == {Absent, Str(""), Str("a@x.com")}

ExpClaims == {Absent, Str("never")} \cup {Num(n) : n \in 0..(MaxTime + 1)}

ClaimSets == [user_id : UserIDClaims, email : EmailClaims, exp : ExpClaims]

PresentedTokens ==
    {[alg |-> a, claims |-> c, sig |-> [key |-> k, alg |-> a, claims |-> c]] :
        a \in TokenAlgs, c \in ClaimSets, k \in {JWTSecret, "other-secret"}}
    \cup
    {[alg |-> a, claims |-> c,
      sig |-> [key |-> JWTSecret, alg |-> a, claims |-> [c EXCEPT !.exp = Num(1)]]] :
        a \in TokenAlgs, c \in {x \in ClaimSets : x.exp # Num(1)}}
    \cup
    {[alg |-> a, claims |-> c, sig |-> NoSignature] : a \in TokenAlgs, c \in ClaimSets}

\* The Authorization headers of the requests: absent, the scheme alone, text
\* that is no token, and each token bare, after "Bearer ", after "bearer ",
\* after two spaces, with a leading space and with a trailing part.
PresentedHeaders ==
    {<<>>, Bearer, Bearer \o <<SP>>, <<SP>>,
     Bearer \o <<SP, Ch("x")>>, Bearer \o <<SP, SP>>}
    \cup {Compact(tk) : tk \in PresentedTokens}
    \cup {Bearer \o <<SP>> \o Compact(tk) : tk \in PresentedTokens}
    \cup {<<Ch("b")>> \o Tail(Bearer) \o <<SP>> \o Compact(tk) : tk \in PresentedTokens}
    \cup {Bearer \o <<SP, SP>> \o Compact(tk) : tk \in PresentedTokens}
    \cup {<<SP>> \o Bearer \o <<SP>> \o Compact(tk) : tk \in PresentedTokens}
    \cup {Bearer \o <<SP>> \o Compact(tk) \o <<SP, Ch("x")>> : tk \in PresentedTokens}

\* A request reaches the middleware, which answers it.
Authorize ==
    /\ last.op = "Request"
    /\ last' = [op |-> "Authorize", header |-> last.header, at |-> now,
                res |-> AuthMiddleware(JWTSecret, last.header, now)]
    /\ UNCHANGED <<store, now, reg, registered, held>>

----------------------------------------------------------------------------
(* The lookup by id, the handlers and the routes. *)

MutFindByIDAnyRow(users, id, dbErr) ==
    IF dbErr # Nil THEN [user |-> NilUser, err |-> dbErr]
    ELSE IF users # {}
         THEN [user |-> CHOOSE u \in users : TRUE, err |-> Nil]
         ELSE [user |-> NilUser, err |-> ErrRecordNotFound]

\* UserRepository.FindByID: First with "id = ?"; dbErr is what the database
\* call itself fails with, if anything.
FindByID(users, id, dbErr) ==
    IF dbErr # Nil THEN [user |-> NilUser, err |-> dbErr]
    ELSE IF \E u \in users : UUIDString(u.ID) = id
         THEN [user |-> CHOOSE u \in users : UUIDString(u.ID) = id, err |-> Nil]
         ELSE [user |-> NilUser, err |-> ErrRecordNotFound]

MutGetUserByIDHidesError(users, id, dbErr) ==
    LET r == FindByID(users, id, dbErr)
    IN IF r.err # Nil THEN [user |-> NilUser, err |-> "user not found"] ELSE r

\* AuthService.GetUserByID.
GetUserByID(users, id, dbErr) == FindByID(users, id, dbErr)

MutUserJSONWithHash(user) ==
    [id |-> UUIDString(user.ID), email |-> user.Email,
     password_hash |-> user.PasswordHash, full_name |-> user.FullName,
     created_at |-> user.CreatedAt, updated_at |-> user.UpdatedAt]

\* json.Marshal of a model.User: the fields under their json tags;
\* PasswordHash is tagged "-" and left out.
UserJSON(user) ==
    [id |-> UUIDString(user.ID), email |-> user.Email, full_name |-> user.FullName,
     created_at |-> user.CreatedAt, updated_at |-> user.UpdatedAt]

\* gin.H{"error": message}.
H(message) == [error |-> message]

\* A response without a body.
NoBody == [nobody |-> TRUE]

\* What ShouldBindJSON fails with on a request without a body.
BindErrEOF == "EOF"

\* The Register handler after binding: the response for what the service returned.
RegisterResponse(user, err) ==
    IF err # Nil THEN [status |-> 400, body |-> H(err)]
    ELSE [status |-> 201, body |-> UserJSON(user)]

\* The Login handler after binding: the response for what the service returned.
LoginResponse(token, err) ==
    IF err # Nil THEN [status |-> 400, body |-> H(err)]
    ELSE [status |-> 200, body |-> [token |-> token]]

\* GetUserByID was not called.
NoLookup == [called |-> FALSE]

\* The GetProfile handler on a context holding ctx.user_id: 401 without a
\* user_id, a panic in id.(string) when it is not a string (gin's Recovery
\* answers 500), 404 with the error of the lookup, or 200 with the user.
GetProfile(ctx, users, dbErr) ==
    LET id == ctx.user_id
    IN IF id = Absent
       THEN [status |-> 401, body |-> H("unauthorized"), lookup |-> NoLookup]
       ELSE IF id.t # "str"
       THEN [status |-> 500, body |-> NoBody, lookup |-> NoLookup]
       ELSE LET r == GetUserByID(users, id.s, dbErr)
                lookup == [called |-> TRUE, id |-> id.s, dbErr |-> dbErr,
                           user |-> r.user, err |-> r.err]
            IN IF r.err # Nil
               THEN [status |-> 404, body |-> H(r.err), lookup |-> lookup]
               ELSE [status |-> 200, body |-> UserJSON(r.user), lookup |-> lookup]

Methods == {"GET", "POST"}

Paths == {"/api/register", "/api/login", "/api/profile", "/api/other"}

MutRouteProfileUnprotected(method, path) ==
    IF method = "POST" /\ path = "/api/register" THEN <<"Register">>
    ELSE IF method = "POST" /\ path = "/api/login" THEN <<"Login">>
    ELSE IF method = "GET" /\ path = "/api/profile" THEN <<"GetProfile">>
    ELSE <<>>

\* The handler chain gin runs for a request: Register and Login are added to
\* the engine itself, GetProfile to a group that uses AuthMiddleware; no
\* other method and path is routed.
Route(method, path) ==
    IF method = "POST" /\ path = "/api/register" THEN <<"Register">>
    ELSE IF method = "POST" /\ path = "/api/login" THEN <<"Login">>
    ELSE IF method = "GET" /\ path = "/api/profile" THEN <<"AuthMiddleware", "GetProfile">>
    ELSE <<>>

\* The context of a request no middleware ran for.
NoMiddleware ==
    [status |-> 0, error |-> "", next |-> TRUE, parsed |-> FALSE,
     user_id |-> Absent, email |-> Absent]

\* The engine serving a request that has no body: the handlers of the route
\* run in order until one aborts. ran lists the handlers invoked, mw is what
\* the middleware did, lookup what the service's lookup by id returned.
ServeHTTP(method, path, header, users, dbErr, t) ==
    LET chain == Route(method, path)
        mw == IF chain # <<>> /\ chain[1] = "AuthMiddleware"
              THEN AuthMiddleware(JWTSecret, header, t)
              ELSE NoMiddleware
    IN IF chain = <<>>
       THEN [ran |-> <<>>, mw |-> mw, status |-> 404,
             body |-> [text |-> "404 page not found"], lookup |-> NoLookup]
       ELSE IF ~mw.next
       THEN [ran |-> <<"AuthMiddleware">>, mw |-> mw, status |-> mw.status,
             body |-> H(mw.error), lookup |-> NoLookup]
       ELSE IF chain[Len(chain)] = "GetProfile"
       THEN LET r == GetProfile(mw, users, dbErr)
            IN [ran |-> chain, mw |-> mw, status |-> r.status, body |-> r.body,
                lookup |-> r.lookup]
       ELSE [ran |-> chain, mw |-> mw, status |-> 400, body |-> H(BindErrEOF),
             lookup |-> NoLookup]

\* The client keeps the token of the login that just succeeded.
Keep ==
    /\ last.op = "Login"
    /\ last.err = Nil
    /\ held # last
    /\ held' = last
    /\ UNCHANGED <<store, now, reg, registered, last>>

\* The Authorization headers the client can send: none, the token it keeps
\* after "Bearer ", or that token bare.
ClientHeaders ==
    {<<>>} \cup (IF held.op = "Login"
                 THEN {Bearer \o <<SP>> \o held.token, held.token}
                 ELSE {})

\* A GET /api/profile request.
Profile ==
    /\ \E header \in ClientHeaders, dbErr \in DBOutcomes :
        last' = [op |-> "Profile", header |-> header, at |-> now,
                 resp |-> ServeHTTP("GET", "/api/profile", header, store, dbErr, now)]
    /\ UNCHANGED <<store, now, reg, registered, held>>

\* The inputs of the registrations that filled the table before the requests.
SeedInput(i) ==
    [Email |-> IF i = 1 THEN "a@x.com" ELSE "b@x.com",
     Password |-> "password1", FullName |-> "A"]

\* The table and the history after the first n of them, at clock value 1.
RECURSIVE Seeded(_)
Seeded(n) ==
    IF n = 0 THEN [users |-> {}, history |-> {}]
    ELSE LET prev == Seeded(n - 1)
             b == RegisterBegin(prev.users, SeedInput(n), Nil, "s1")
             e == RegisterEnd(prev.users, b, Nil, 1)
         IN [users |-> e.users, history |-> Registered(prev.history, e.out)]

\* The headers of the routed requests: none, no credentials, no token, and HS256 tokens for
\* a stored user, for a user who may not be stored and with a user_id that is
\* not a string, expired or not, signed with the secret or with another key.
RouteHeaders ==
    {<<>>, Bearer, Bearer \o <<SP, Ch("x")>>}
    \cup {Bearer \o <<SP>>
            \o SignedString("HS256",
                            [user_id |-> u, email |-> Str("a@x.com"), exp |-> Num(e)], k) :
          u \in {Str(UUIDString(1)), Str(UUIDString(2)), Num(7)},
          e \in {1, MaxTime + 1},
          k \in {JWTSecret, "other-secret"}}

\* The engine serves a request.
Dispatch ==
    /\ last.op = "HTTP"
    /\ \E dbErr \in DBOutcomes :
        last' = [op |-> "Dispatch", method |-> last.method, path |-> last.path,
                 header |-> last.header, at |-> now,
                 resp |-> ServeHTTP(last.method, last.path, last.header, store, dbErr, now)]
    /\ UNCHANGED <<store, now, reg, registered, held>>

\* A request body that is not JSON.
Malformed == [malformed |-> TRUE]

\* The bodies of the POST requests: no JSON, or a JSON object whose email,
\* password and full_name are absent, empty, too short, ill-formed, fine, or
\* not a string.
Bodies ==
    {Malformed}
    \cup [email : {Absent, Str(""), Str("ax.com"), Str("a@x.com"), Str("b@x.com")},
          password : {Absent, Str(""), Str("pass123"), Str("password1"), Num(12345678)},
          full_name : {Absent, Str(""), Str("A")}]

\* binding:"min=8" on RegisterInput.Password.
MinPasswordLen == 8

\* The validator's "email" rule, as far as the addresses here go: one "@",
\* with text before it and after it, and no space.
IsEmail(s) ==
    LET ats == {i \in 1..Len(s) : SubSeq(s, i, i) = "@"}
    IN /\ Cardinality(ats) = 1
       /\ 1 \notin ats
       /\ Len(s) \notin ats
       /\ \A i \in 1..Len(s) : SubSeq(s, i, i) # " "

\* json.Unmarshal of a field into a Go string: an absent field leaves the
\* zero value "", a JSON value that is not a string is an error.
DecodesToString(v) == v = Absent \/ v.t = "str"

DecodedString(v) == IF v = Absent THEN "" ELSE v.s

\* The rules of one field that fail, in the order of its binding tag; the
\* validator stops at the first failing rule of a field.
FailedRule(field, s, rules) ==
    IF "required" \in rules /\ s = "" THEN <<[field |-> field, tag |-> "required"]>>
    ELSE IF "email" \in rules /\ ~IsEmail(s) THEN <<[field |-> field, tag |-> "email"]>>
    ELSE IF "min" \in rules /\ Len(s) < MinPasswordLen THEN <<[field |-> field, tag |-> "min"]>>
    ELSE <<>>

\* What ShouldBindJSON does for a struct with these fields and rules: decode
\* the body, then validate every field. ok tells whether it returned nil.
ShouldBindJSON(body, email, password, fullName) ==
    IF body = Malformed
    THEN [ok |-> FALSE, err |-> [bind |-> "syntax"]]
    ELSE IF ~DecodesToString(body.email) \/ ~DecodesToString(body.password)
            \/ (fullName # {} /\ ~DecodesToString(body.full_name))
    THEN [ok |-> FALSE, err |-> [bind |-> "type"]]
    ELSE LET failed == FailedRule("Email", DecodedString(body.email), email)
                       \o FailedRule("Password", DecodedString(body.password), password)
                       \o (IF fullName = {} THEN <<>>
                           ELSE FailedRule("FullName", DecodedString(body.full_name), fullName))
         IN IF failed # <<>>
            THEN [ok |-> FALSE, err |-> [bind |-> "validation", failed |-> failed]]
            ELSE [ok |-> TRUE, err |-> [bind |-> "none"]]

\* The service was not called.
NoCall == [op |-> "none"]

MutRegisterHandlerNoMinLength(body, users, dbErr1, dbErr2, salt, t) ==
    LET bound == ShouldBindJSON(body, {"required", "email"}, {"required"}, {"required"})
    IN IF ~bound.ok
       THEN [bound |-> bound, called |-> FALSE, users |-> users, out |-> NoCall,
             writes |-> <<[status |-> 400, body |-> H(bound.err)]>>]
       ELSE LET input == [Email |-> DecodedString(body.email),
                          Password |-> DecodedString(body.password),
                          FullName |-> DecodedString(body.full_name)]
                b == RegisterBegin(users, input, dbErr1, salt)
                e == IF b.ret THEN [users |-> users, out |-> b.out]
                     ELSE RegisterEnd(users, b, dbErr2, t)
            IN [bound |-> bound, called |-> TRUE, users |-> e.users, out |-> e.out,
                writes |-> <<RegisterResponse(e.out.user, e.out.err)>>]

\* The Register handler on a request body: bind, call the service, answer.
\* writes lists the c.JSON calls, out is what the service returned.
RegisterHandler(body, users, dbErr1, dbErr2, salt, t) ==
    LET bound == ShouldBindJSON(body, {"required", "email"}, {"required", "min"},
                                {"required"})
    IN IF ~bound.ok
       THEN [bound |-> bound, called |-> FALSE, users |-> users, out |-> NoCall,
             writes |-> <<[status |-> 400, body |-> H(bound.err)]>>]
       ELSE LET input == [Email |-> DecodedString(body.email),
                          Password |-> DecodedString(body.password),
                          FullName |-> DecodedString(body.full_name)]
                b == RegisterBegin(users, input, dbErr1, salt)
                e == IF b.ret THEN [users |-> users, out |-> b.out]
                     ELSE RegisterEnd(users, b, dbErr2, t)
            IN [bound |-> bound, called |-> TRUE, users |-> e.users, out |-> e.out,
                writes |-> <<RegisterResponse(e.out.user, e.out.err)>>]

MutLoginWritesNoReturn(token, err) ==
    IF err # Nil
    THEN <<[status |-> 400, body |-> H(err)], [status |-> 200, body |-> [token |-> token]]>>
    ELSE <<[status |-> 200, body |-> [token |-> token]]>>

\* The c.JSON calls of the Login handler after the service returned: the
\* handler returns after the 400.
LoginWrites(token, err) == <<LoginResponse(token, err)>>

\* The Login handler on a request body: bind, call the service, answer.
LoginHandler(body, users, dbErr, secret, t) ==
    LET bound == ShouldBindJSON(body, {"required", "email"}, {"required"}, {})
    IN IF ~bound.ok
       THEN [bound |-> bound, called |-> FALSE, users |-> users, out |-> NoCall,
             writes |-> <<[status |-> 400, body |-> H(bound.err)]>>]
       ELSE LET input == [Email |-> DecodedString(body.email),
                          Password |-> DecodedString(body.password)]
                r == LoginResult(users, input, dbErr, secret, t)
            IN [bound |-> bound, called |-> TRUE, users |-> users,
                out |-> [op |-> "Login", input |-> input, token |-> r.token, err |-> r.err],
                writes |-> LoginWrites(r.token, r.err)]

\* A POST /api/register or POST /api/login request is served by its handler.
Handle ==
    /\ last.op = "Body"
    /\ \E dbErr1 \in DBOutcomes, dbErr2 \in DBOutcomes, salt \in Salts :
        LET r == IF last.handler = "Register"
                 THEN RegisterHandler(last.body, store, dbErr1, dbErr2, salt, now)
                 ELSE LoginHandler(last.body, store, dbErr1, JWTSecret, now)
        IN /\ store' = r.users
           /\ registered' = IF r.called /\ last.handler = "Register"
                            THEN Registered(registered, r.out)
                            ELSE registered
           /\ last' = [op |-> "Handle", handler |-> last.handler, body |-> last.body,
                       at |-> now, bound |-> r.bound, called |-> r.called,
                       out |-> r.out, writes |-> r.writes]
    /\ UNCHANGED <<now, reg, held>>

----------------------------------------------------------------------------
(* The configuration. *)

\* The variables LoadConfig reads.
EnvKeys == {"DB_HOST", "DB_USER", "DB_PASSWORD", "DB_NAME", "DB_PORT",
            "SERVER_PORT", "JWT_SECRET"}

\* The default LoadConfig gives for JWT_SECRET and then refuses.
PlaceholderSecret == "your-secret-key"

\* The process environments: each variable unset (Absent) or set to a
\* string, which may be empty.
Environments ==
    {e \in [EnvKeys -> {Absent, Str(""), Str("x"), Str(PlaceholderSecret),
                        Str("test-secret")}] :
        /\ e["DB_HOST"] \in {Absent, Str(""), Str("x")}
        /\ e["SERVER_PORT"] \in {Absent, Str("x")}
        /\ \A k \in {"DB_USER", "DB_PASSWORD", "DB_NAME", "DB_PORT"} :
             e[k] \in {Absent, Str("x")}
        /\ e["JWT_SECRET"] # Str("x")}

\* The .env file of the working directory: missing, unreadable or
\* ill-formed, or a file that sets JWT_SECRET.
DotEnvFiles ==
    {[state |-> "missing"], [state |-> "broken"]}
    \cup {[state |-> "file", JWT_SECRET |-> s] : s \in {"file-secret", PlaceholderSecret}}

\* godotenv.Load(): the variables of .env that the process does not have are
\* added to its environment. err is the error returned; a missing file gives
\* an error os.IsNotExist recognises.
GodotenvLoad(env, dotenv) ==
    IF dotenv.state = "missing" THEN [env |-> env, err |-> "not exist"]
    ELSE IF dotenv.state = "broken" THEN [env |-> env, err |-> "unexpected character"]
    ELSE [env |-> [k \in EnvKeys |->
                     IF k = "JWT_SECRET" /\ env[k] = Absent
                     THEN Str(dotenv.JWT_SECRET) ELSE env[k]],
          err |-> Nil]

\* getEnv: the value of the variable when it is present in the environment
\* (os.LookupEnv), the default otherwise.
getEnv(env, key, defaultValue) ==
    IF env[key] = Absent THEN defaultValue ELSE env[key].s

\* A nil *Config.
NilConfig == [nil |-> TRUE]

\* 24 * time.Hour, in hours.
TokenExpiryDur == 24

MutLoadConfigAcceptsPlaceholder(env, dotenv) ==
    LET loaded == GodotenvLoad(env, dotenv)
        config == [DBHost |-> getEnv(loaded.env, "DB_HOST", "localhost"),
                   DBUser |-> getEnv(loaded.env, "DB_USER", "postgres"),
                   DBPassword |-> getEnv(loaded.env, "DB_PASSWORD", ""),
                   DBName |-> getEnv(loaded.env, "DB_NAME", "go_auth_db"),
                   DBPort |-> getEnv(loaded.env, "DB_PORT", "5432"),
                   ServerPort |-> getEnv(loaded.env, "SERVER_PORT", "8080"),
                   JWTSecret |-> getEnv(loaded.env, "JWT_SECRET", PlaceholderSecret),
                   TokenExpiryDur |-> TokenExpiryDur]
    IN IF loaded.err # Nil /\ loaded.err # "not exist"
       THEN [config |-> NilConfig, err |-> "error loading .env file"]
       ELSE [config |-> config, err |-> Nil]

\* LoadConfig in a process with environment env and .env file dotenv.
LoadConfig(env, dotenv) ==
    LET loaded == GodotenvLoad(env, dotenv)
        config == [DBHost |-> getEnv(loaded.env, "DB_HOST", "localhost"),
                   DBUser |-> getEnv(loaded.env, "DB_USER", "postgres"),
                   DBPassword |-> getEnv(loaded.env, "DB_PASSWORD", ""),
                   DBName |-> getEnv(loaded.env, "DB_NAME", "go_auth_db"),
                   DBPort |-> getEnv(loaded.env, "DB_PORT", "5432"),
                   ServerPort |-> getEnv(loaded.env, "SERVER_PORT", "8080"),
                   JWTSecret |-> getEnv(loaded.env, "JWT_SECRET", PlaceholderSecret),
                   TokenExpiryDur |-> TokenExpiryDur]
    IN IF loaded.err # Nil /\ loaded.err # "not exist"
       THEN [config |-> NilConfig, err |-> "error loading .env file"]
       ELSE IF config.JWTSecret = PlaceholderSecret
       THEN [config |-> NilConfig, err |-> "jwt secret must be set in environment"]
       ELSE [config |-> config, err |-> Nil]

\* The process starts and loads its configuration.
Load ==
    /\ last.op = "Start"
    /\ LET r == LoadConfig(last.env, last.dotenv)
       IN last' = [op |-> "LoadConfig", env |-> last.env, dotenv |-> last.dotenv,
                   config |-> r.config, err |-> r.err]
    /\ UNCHANGED <<store, now, reg, registered, held>>

----------------------------------------------------------------------------

Init ==
    /\ store = {}
    /\ now = 1
    /\ reg = [p \in Procs |-> Idle]
    /\ registered = {}
    /\ last = [op |-> "none"]
    /\ held = [op |-> "none"]

\* The service with one call at a time.
Next ==
    \/ Register
    \/ Login
    \/ Tick
    \/ Keep
    \/ Profile

Spec == Init /\ [][Next]_vars

\* Concurrent Register calls: each call is two steps, the lookup and the
\* insert, and the calls of different callers interleave.
InitRace ==
    /\ store = {}
    /\ now = 1
    /\ reg = [p \in Procs |-> Idle]
    /\ registered = {}
    /\ last = [op |-> "none"]
    /\ held = [op |-> "none"]

NextRace ==
    \/ \E p \in Procs : RegisterFind(p)
    \/ \E p \in Procs : RegisterCreate(p)

SpecRace == InitRace /\ [][NextRace]_vars

\* The middleware alone: one request, with any of the headers, at any time.
InitAuth ==
    /\ store = {}
    /\ now \in 1..MaxTime
    /\ reg = [p \in Procs |-> Idle]
    /\ registered = {}
    /\ \E h \in PresentedHeaders : last = [op |-> "Request", header |-> h]
    /\ held = [op |-> "none"]

NextAuth == Authorize

SpecAuth == InitAuth /\ [][NextAuth]_vars

\* The router: one request of any method and path, with or without a token,
\* on a table that holds zero, one or two users.
InitRoute ==
    /\ \E n \in 0..2 : store = Seeded(n).users /\ registered = Seeded(n).history
    /\ now \in 1..MaxTime
    /\ reg = [p \in Procs |-> Idle]
    /\ \E m \in Methods, path \in Paths, h \in RouteHeaders :
        last = [op |-> "HTTP", method |-> m, path |-> path, header |-> h]
    /\ held = [op |-> "none"]

NextRoute == Dispatch

SpecRoute == InitRoute /\ [][NextRoute]_vars

\* The handlers of the two POST routes: one request with any of the bodies,
\* on a table that holds zero, one or two users.
InitHandler ==
    /\ \E n \in 0..2 : store = Seeded(n).users /\ registered = Seeded(n).history
    /\ now \in 1..MaxTime
    /\ reg = [p \in Procs |-> Idle]
    /\ \E h \in {"Register", "Login"}, b \in Bodies :
        last = [op |-> "Body", handler |-> h, body |-> b]
    /\ held = [op |-> "none"]

NextHandler == Handle

SpecHandler == InitHandler /\ [][NextHandler]_vars

\* The start of the process: LoadConfig in any of the environments, with
\* any of the .env files.
InitConfig ==
    /\ store = {}
    /\ now = 1
    /\ reg = [p \in Procs |-> Idle]
    /\ registered = {}
    /\ \E e \in Environments, d \in DotEnvFiles :
        last = [op |-> "Start", env |-> e, dotenv |-> d]
    /\ held = [op |-> "none"]

NextConfig == Load

SpecConfig == InitConfig /\ [][NextConfig]_vars

----------------------------------------------------------------------------
(* The claims about AuthService. *)

\* The successful registrations of an email.
RegisteredAs(email) == {r \in registered : r.Email = email}

\* C1: whenever Login's lookup reports not-found, or fails with another
\* error, or finds a user who registered with a different password, Login
\* returns the empty token and the error "invalid credentials": the same
\* result in the three cases.
C1_LoginFailuresAreUniform ==
    (/\ last.op = "Login"
     /\ \/ last.lookupErr = ErrRecordNotFound
        \/ last.lookupErr \notin {Nil, ErrRecordNotFound}
        \/ /\ last.lookupErr = Nil
           /\ \E r \in RegisteredAs(last.input.Email) : r.Password # last.input.Password)
    => /\ last.token = <<>>
       /\ last.err = "invalid credentials"

\* A login with the wrong password for a registered email was refused.
C1_Witness ==
    /\ last.op = "Login"
    /\ last.lookupErr = Nil
    /\ \E r \in RegisteredAs(last.input.Email) : r.Password # last.input.Password
    /\ last.err = "invalid credentials"

\* The token Login is to return for registration r when called at clock value at.
IsTokenFor(token, r, at) ==
    /\ Len(token) = 1
    /\ LET t == token[1].tok
       IN /\ t.alg = "HS256"
          /\ t.sig = [key |-> JWTSecret, alg |-> t.alg, claims |-> t.claims]
          /\ t.claims.user_id = Str(UUIDString(r.ID))
          /\ t.claims.email = Str(r.Email)
          /\ t.claims.exp = Num(at + TokenExpiryTicks)

\* C2 as stated: every Login with the email and password of an earlier
\* successful Register succeeds and returns the token with that user's id and
\* email, expiring one token expiry after the call.
C2_LoginOfRegisteredAlwaysSucceeds ==
    (/\ last.op = "Login"
     /\ \E r \in RegisteredAs(last.input.Email) : r.Password = last.input.Password)
    => /\ last.err = Nil
       /\ \A r \in RegisteredAs(last.input.Email) : IsTokenFor(last.token, r, last.at)

\* C2 amended: every Login with the email and password of an earlier
\* successful Register whose lookup returns the user succeeds and returns the
\* token with that user's id and email, expiring one token expiry after the call.
C2_LoginOfRegisteredSucceedsWhenFound ==
    (/\ last.op = "Login"
     /\ last.lookupErr = Nil
     /\ \E r \in RegisteredAs(last.input.Email) : r.Password = last.input.Password)
    => /\ last.err = Nil
       /\ \A r \in RegisteredAs(last.input.Email) : IsTokenFor(last.token, r, last.at)

\* A registered user logged in with the registered password, after the clock moved.
C2_Witness ==
    /\ last.op = "Login"
    /\ last.err = Nil
    /\ last.at > 1
    /\ \E r \in RegisteredAs(last.input.Email) :
        r.Password = last.input.Password /\ IsTokenFor(last.token, r, last.at)

\* C3: a Register whose lookup finds a user with the email returns the error
\* "email already registered" and no user, without calling Create, and the
\* step leaves the users table as it was.
C3_DuplicateRegisterIsRefused ==
    [][(last'.op = "Register" /\ last'.lookupErr = Nil)
       => /\ last'.err = "email already registered"
          /\ last'.user = NilUser
          /\ last'.creates = 0
          /\ last' # last => store' = store]_vars

\* A second Register of a registered email was refused; the first user is stored.
C3_Witness ==
    /\ last.op = "Register"
    /\ last.lookupErr = Nil
    /\ last.err = "email already registered"
    /\ \E r \in RegisteredAs(last.input.Email) :
        \E u \in store : u.ID = r.ID /\ u.Email = r.Email

\* C4 as stated: when Register's lookup fails with an error other than
\* not-found, Register returns that error and neither hashes nor calls Create.
C4_LookupFailureIsPropagated ==
    (/\ last.op = "Register"
     /\ last.lookupErr \notin {Nil, ErrRecordNotFound})
    => /\ last.err = last.lookupErr
       /\ last.user = NilUser
       /\ ~last.hashed
       /\ last.creates = 0

\* C5 as stated: when a Register call passed the pre-check (its lookup said
\* not-found) and Create then rejects the insert for the unique index on
\* email, Register returns the error "email already registered".
C5_UniqueViolationIsDuplicateEmail ==
    (/\ last.op = "Register"
     /\ last.lookupErr = ErrRecordNotFound
     /\ last.createErr = ErrUniqueViolation)
    => last.err = "email already registered"

\* C6: in every interleaving of Register calls, at most one call per email
\* returns a user and the users table holds at most one user per email.
C6_AtMostOneRegistrationPerEmail ==
    \A e \in Emails :
        /\ Cardinality(RegisteredAs(e)) <= 1
        /\ Cardinality({u \in store : u.Email = e}) <= 1

\* A call that passed the pre-check (its lookup said not-found) lost the race:
\* its Create was rejected by the unique index, and the other call's user is stored.
C6_Witness ==
    /\ last.op = "Register"
    /\ last.lookupErr = ErrRecordNotFound
    /\ last.createErr = ErrUniqueViolation
    /\ Cardinality(RegisteredAs(last.input.Email)) = 1
    /\ Cardinality({u \in store : u.Email = last.input.Email}) = 1

\* A Register call completes in this step, for an email the table does not
\* hold, with a password of at least 8 bytes and a non-empty full name.
RegistersNewEmail ==
    /\ last' # last
    /\ last'.op = "Register"
    /\ ~\E u \in store : u.Email = last'.input.Email
    /\ Len(last'.input.Password) >= 8
    /\ last'.input.FullName # ""

\* The call completing in this step returned the user it stored.
ReturnsStoredUser ==
    /\ last'.err = Nil
    /\ last'.user # NilUser
    /\ store' = store \cup {last'.user}
    /\ last'.user.ID # 0
    /\ UUIDString(last'.user.ID) # ""
    /\ last'.user.Email = last'.input.Email
    /\ last'.user.FullName = last'.input.FullName
    /\ last'.user.PasswordHash # last'.input.Password

\* C7 as stated: Register of a new email with a password of at least 8
\* characters and a non-empty full name succeeds, calls Create once and
\* returns the stored user, whose hash is not the plaintext.
C7_ValidRegisterAlwaysSucceeds ==
    [][RegistersNewEmail => (last'.creates = 1 /\ ReturnsStoredUser)]_vars

\* C7 amended: with a password of 8 to 72 bytes the call calls Create once;
\* if Create succeeds it returns the stored user, whose hash is not the
\* plaintext, and if Create fails it returns Create's error and no user.
C7_ValidRegisterSucceedsIfCreateDoes ==
    [][(RegistersNewEmail /\ Len(last'.input.Password) <= 72)
       => /\ last'.creates = 1
          /\ last'.createErr = Nil => ReturnsStoredUser
          /\ last'.createErr # Nil =>
                (last'.err = last'.createErr /\ last'.user = NilUser /\ store' = store)]_vars

\* A valid registration returned the user now in the table.
C7_Witness ==
    /\ last.op = "Register"
    /\ last.err = Nil
    /\ last.creates = 1
    /\ last.user \in store
    /\ Len(last.input.Password) >= 8

----------------------------------------------------------------------------
(* The claims about AuthMiddleware. *)

\* The header is "Bearer", one space, and credentials that hold no space.
HasBearerShape(h) ==
    /\ Len(h) >= Len(Bearer) + 1
    /\ SubSeq(h, 1, Len(Bearer)) = Bearer
    /\ h[Len(Bearer) + 1] = SP
    /\ \A i \in (Len(Bearer) + 2)..Len(h) : h[i] # SP

\* What follows "Bearer " in the header.
Credentials(h) == SubSeq(h, Len(Bearer) + 2, Len(h))

\* The credentials parse and verify under the configured secret at clock value t.
TokenVerifies(h, t) ==
    LET token == JwtParse(Credentials(h), JWTSecret, t)
    IN token.err = Nil /\ token.Valid

\* The token's identity claims are there and are not the empty string.
IdentityPresent(h) ==
    LET claims == Credentials(h)[1].tok.claims
    IN /\ claims.user_id \notin {Absent, Str("")}
       /\ claims.email \notin {Absent, Str("")}

\* The middleware answered 401 with this message and stopped the request.
Rejected(res, message) ==
    /\ res.status = 401
    /\ res.error = message
    /\ ~res.next

\* C8: the middleware answers 401 with the message of the first failing check
\* among header present, header format, token parses and verifies, identity
\* claims present, and lets the request continue exactly when all four pass.
C8_FirstFailingCheckAnswers ==
    last.op = "Authorize" =>
        LET h == last.header
            res == last.res
        IN /\ h = <<>> => Rejected(res, "authorization header required")
           /\ (h # <<>> /\ ~HasBearerShape(h))
                => Rejected(res, "invalid authorization header format")
           /\ (HasBearerShape(h) /\ ~TokenVerifies(h, last.at))
                => Rejected(res, "invalid token")
           /\ (HasBearerShape(h) /\ TokenVerifies(h, last.at) /\ ~IdentityPresent(h))
                => Rejected(res, "invalid token claims")
           /\ res.next <=> (/\ h # <<>>
                            /\ HasBearerShape(h)
                            /\ TokenVerifies(h, last.at)
                            /\ IdentityPresent(h))

\* A token that verifies but has no usable identity was answered by the fourth check.
C8_Witness ==
    /\ last.op = "Authorize"
    /\ HasBearerShape(last.header)
    /\ TokenVerifies(last.header, last.at)
    /\ ~IdentityPresent(last.header)
    /\ Rejected(last.res, "invalid token claims")

\* C9: a non-empty header that is not "Bearer", one space and credentials
\* without a space is answered 401 "invalid authorization header format", and
\* jwt.Parse is not called.
C9_MalformedHeaderIsNotParsed ==
    (/\ last.op = "Authorize"
     /\ last.header # <<>>
     /\ ~HasBearerShape(last.header))
    => /\ Rejected(last.res, "invalid authorization header format")
       /\ ~last.res.parsed

\* A token that would verify, sent after "Bearer" and two spaces, was refused unparsed.
C9_Witness ==
    /\ last.op = "Authorize"
    /\ \E tk \in PresentedTokens :
        /\ last.header = Bearer \o <<SP, SP>> \o Compact(tk)
        /\ JwtParse(Compact(tk), JWTSecret, last.at).Valid
    /\ Rejected(last.res, "invalid authorization header format")
    /\ ~last.res.parsed

\* The header is "Bearer " and an HS256 token signed with the configured
\* secret whose user_id and email are non-empty strings and whose exp is a number.
CarriesSignedIdentity(h) ==
    /\ HasBearerShape(h)
    /\ Len(Credentials(h)) = 1
    /\ "tok" \in DOMAIN Credentials(h)[1]
    /\ LET token == Credentials(h)[1].tok
       IN /\ token.alg = "HS256"
          /\ token.sig = [key |-> JWTSecret, alg |-> token.alg, claims |-> token.claims]
          /\ token.claims.user_id.t = "str" /\ token.claims.user_id.s # ""
          /\ token.claims.email.t = "str" /\ token.claims.email.s # ""
          /\ token.claims.exp.t = "num"

\* C10 as stated: a token whose exp is earlier than the time of the request
\* is answered 401 "invalid token", though it is signed with the configured
\* secret and carries a non-empty user_id and email.
C10_ExpiredTokenIsRejected ==
    (/\ last.op = "Authorize"
     /\ CarriesSignedIdentity(last.header)
     /\ Credentials(last.header)[1].tok.claims.exp.n < last.at)
    => Rejected(last.res, "invalid token")

\* The tokens a header holds.
TokensIn(h) == {h[i].tok : i \in {j \in 1..Len(h) : "tok" \in DOMAIN h[j]}}

\* The token is signed over its own header and claims with a key that is not
\* the configured secret.
SignedWithOtherSecret(token) ==
    /\ "key" \in DOMAIN token.sig
    /\ token.sig.key # JWTSecret
    /\ token.sig.alg = token.alg
    /\ token.sig.claims = token.claims

\* C11: a request whose header holds a token signed with a secret other than
\* the configured one, or a token that declares the algorithm "none" and has
\* no signature, is answered 401 and does not reach the downstream handler,
\* whatever the token's claims are.
C11_ForgedTokenIsRejected ==
    (/\ last.op = "Authorize"
     /\ \E token \in TokensIn(last.header) :
          \/ SignedWithOtherSecret(token)
          \/ token.alg = "none" /\ token.sig = NoSignature)
    => /\ last.res.status = 401
       /\ ~last.res.next
       /\ last.res.user_id = Absent
       /\ last.res.email = Absent

\* An unexpired HS256 token with a usable identity, signed with another
\* secret and sent after "Bearer ", was answered 401 "invalid token".
C11_Witness ==
    /\ last.op = "Authorize"
    /\ HasBearerShape(last.header)
    /\ \E token \in TokensIn(last.header) :
          /\ SignedWithOtherSecret(token)
          /\ token.alg = "HS256"
          /\ token.claims.user_id = Str(UUIDString(1))
          /\ token.claims.email = Str("a@x.com")
          /\ token.claims.exp = Num(last.at + 1)
    /\ Rejected(last.res, "invalid token")

\* The token is unexpired at clock value t and names a user: its user_id and
\* email are non-empty strings and its exp is a number after t.
SoundClaims(claims, t) ==
    /\ claims.user_id.t = "str" /\ claims.user_id.s # ""
    /\ claims.email.t = "str" /\ claims.email.s # ""
    /\ claims.exp.t = "num" /\ t < claims.exp.n

\* C12 as stated: a request whose header holds a token that declares a
\* signing algorithm other than HS256 is answered 401 and does not reach the
\* downstream handler, also when the token declares HS384 or HS512, is signed
\* with the configured secret, is unexpired and names a user.
C12_OtherAlgorithmIsRejected ==
    (/\ last.op = "Authorize"
     /\ \E token \in TokensIn(last.header) :
          /\ token.alg # "HS256"
          /\ \/ token.sig # [key |-> JWTSecret, alg |-> token.alg, claims |-> token.claims]
             \/ SoundClaims(token.claims, last.at))
    => /\ last.res.status = 401
       /\ ~last.res.next

\* The header is "Bearer " and an HS256 token signed with the configured
\* secret whose exp is a number after clock value t.
CarriesSignedUnexpired(h, t) ==
    /\ HasBearerShape(h)
    /\ Len(Credentials(h)) = 1
    /\ "tok" \in DOMAIN Credentials(h)[1]
    /\ LET token == Credentials(h)[1].tok
       IN /\ token.alg = "HS256"
          /\ token.sig = [key |-> JWTSecret, alg |-> token.alg, claims |-> token.claims]
          /\ token.claims.exp.t = "num"
          /\ t < token.claims.exp.n

\* C14: a token signed with the configured secret and not expired, whose
\* claims lack user_id or email or hold the empty string for one of them, is
\* answered 401 "invalid token claims", and neither user_id nor email is
\* set in the request context.
C14_MissingIdentityIsRejected ==
    (/\ last.op = "Authorize"
     /\ CarriesSignedUnexpired(last.header, last.at)
     /\ LET claims == Credentials(last.header)[1].tok.claims
        IN \/ claims.user_id \in {Absent, Str("")}
           \/ claims.email \in {Absent, Str("")})
    => /\ Rejected(last.res, "invalid token claims")
       /\ last.res.user_id = Absent
       /\ last.res.email = Absent

\* An unexpired signed token with an email and the empty string as user_id
\* was refused for its claims.
C14_Witness ==
    /\ last.op = "Authorize"
    /\ CarriesSignedUnexpired(last.header, last.at)
    /\ Credentials(last.header)[1].tok.claims.user_id = Str("")
    /\ Credentials(last.header)[1].tok.claims.email = Str("a@x.com")
    /\ Rejected(last.res, "invalid token claims")
    /\ last.res.user_id = Absent

\* The credentials of a well-formed header have one of the four defects at
\* clock value t: they are no token, or the token's exp is before t, or its
\* signature is not the one the configured secret gives its header and
\* claims, or it declares an algorithm other than HS256.
Defective(h, t) ==
    \/ ~(Len(Credentials(h)) = 1 /\ "tok" \in DOMAIN Credentials(h)[1])
    \/ LET token == Credentials(h)[1].tok
       IN \/ token.claims.exp.t = "num" /\ token.claims.exp.n < t
          \/ token.sig # [key |-> JWTSecret, alg |-> token.alg, claims |-> token.claims]
          \/ token.alg # "HS256"

\* C15 as stated: a request with a well-formed "Bearer <token>" header whose
\* token is expired, has an invalid signature, is malformed or declares the
\* wrong algorithm is answered 401 "invalid token", so that the response does
\* not tell which of these defects the token has.
C15_DefectsAnswerAlike ==
    (/\ last.op = "Authorize"
     /\ HasBearerShape(last.header)
     /\ Defective(last.header, last.at))
    => Rejected(last.res, "invalid token")

\* C28 as stated: a token the middleware accepts carries an exp claim later
\* than the time of the check; in particular an HS256 token signed with the
\* configured secret, with a non-empty user_id and email and no exp claim, is
\* not accepted.
C28_TokenWithoutExpIsRejected ==
    (/\ last.op = "Authorize"
     /\ HasBearerShape(last.header)
     /\ \E token \in TokensIn(last.header) :
          /\ token.alg = "HS256"
          /\ token.sig = [key |-> JWTSecret, alg |-> token.alg, claims |-> token.claims]
          /\ token.claims.user_id.t = "str" /\ token.claims.user_id.s # ""
          /\ token.claims.email.t = "str" /\ token.claims.email.s # ""
          /\ token.claims.exp = Absent)
    => /\ ~last.res.next
       /\ last.res.status = 401

\* C29 as stated: when the middleware lets a request continue, the user_id
\* and email it put in the context are non-empty strings; in particular an
\* unexpired HS256 token signed with the configured secret whose user_id is a
\* number or null is rejected.
C29_NonStringIdentityIsRejected ==
    (/\ last.op = "Authorize"
     /\ CarriesSignedUnexpired(last.header, last.at)
     /\ Credentials(last.header)[1].tok.claims.user_id.t \in {"num", "null"})
    => /\ ~last.res.next
       /\ last.res.status = 401
       /\ last.res.user_id = Absent

----------------------------------------------------------------------------
(* The claims about the service behind its routes. *)

\* The request GET /api/profile that just completed carried, after "Bearer ",
\* the token of the login the client keeps.
PresentedHeldToken ==
    /\ last.op = "Profile"
    /\ held.op = "Login"
    /\ last.header = Bearer \o <<SP>> \o held.token

\* C13: the token generateToken produced for a user under the configured
\* secret, presented as "Bearer <token>" to the middleware before its expiry
\* (the time of issue plus the configured validity), is accepted, and the
\* user_id and email set in the request context are the id and email of that
\* user.
C13_IssuedTokenRoundTrips ==
    (/\ PresentedHeldToken
     /\ last.at < held.at + TokenExpiryTicks)
    => /\ last.resp.mw.next
       /\ last.resp.mw.user_id = Str(UUIDString(held.lookupUser.ID))
       /\ last.resp.mw.email = Str(held.lookupUser.Email)
       /\ "GetProfile" \in {last.resp.ran[i] : i \in 1..Len(last.resp.ran)}

\* The token of the second registered user was presented before its expiry
\* and the middleware set that user's id and email.
C13_Witness ==
    /\ PresentedHeldToken
    /\ last.at < held.at + TokenExpiryTicks
    /\ held.lookupUser.ID = 2
    /\ last.resp.mw.next
    /\ last.resp.mw.user_id = Str(UUIDString(2))
    /\ last.resp.mw.email = Str(held.input.Email)

\* The handlers that ran for the request that just completed.
Ran == {last.resp.ran[i] : i \in 1..Len(last.resp.ran)}

\* C16: when the middleware answers a request with 401, the request stops
\* there: no handler after the middleware runs, the lookup by id is not
\* made, neither user_id nor email is in the context and 401 is the
\* response; and the handler after the middleware runs only for a request
\* whose header and token passed every check of the middleware.
C16_RejectedRequestIsAborted ==
    (last.op = "Dispatch" /\ "AuthMiddleware" \in Ran)
    => /\ last.resp.mw.status = 401
            => /\ last.resp.ran = <<"AuthMiddleware">>
               /\ ~last.resp.lookup.called
               /\ last.resp.mw.user_id = Absent
               /\ last.resp.mw.email = Absent
               /\ last.resp.status = 401
               /\ last.resp.body = H(last.resp.mw.error)
       /\ "GetProfile" \in Ran
            => /\ last.resp.mw.status # 401
               /\ last.header # <<>>
               /\ HasBearerShape(last.header)
               /\ TokenVerifies(last.header, last.at)
               /\ IdentityPresent(last.header)

\* A request for the profile with a token signed with another secret was
\* answered 401 by the middleware and went no further.
C16_Witness ==
    /\ last.op = "Dispatch"
    /\ last.resp.ran = <<"AuthMiddleware">>
    /\ \E token \in TokensIn(last.header) : SignedWithOtherSecret(token)
    /\ last.resp.mw.status = 401
    /\ last.resp.status = 401
    /\ ~last.resp.lookup.called

\* C17: GetProfile, and with it the lookup by id, runs only for a GET
\* /api/profile request and only after the middleware ran and accepted the
\* request's token, while POST /api/register and POST /api/login go straight
\* to their handlers, whatever the Authorization header is and also without one.
C17_ProfileOnlyThroughMiddleware ==
    last.op = "Dispatch" =>
        /\ ("GetProfile" \in Ran \/ last.resp.lookup.called)
             => /\ last.method = "GET" /\ last.path = "/api/profile"
                /\ last.resp.ran = <<"AuthMiddleware", "GetProfile">>
                /\ last.resp.mw = AuthMiddleware(JWTSecret, last.header, last.at)
                /\ last.resp.mw.next
                /\ HasBearerShape(last.header)
                /\ TokenVerifies(last.header, last.at)
        /\ (last.method = "POST" /\ last.path = "/api/register")
             => /\ last.resp.ran = <<"Register">>
                /\ last.resp.status # 401
        /\ (last.method = "POST" /\ last.path = "/api/login")
             => /\ last.resp.ran = <<"Login">>
                /\ last.resp.status # 401

\* A request for the profile reached GetProfile and the lookup by id after
\* the middleware accepted its token.
C17_Witness ==
    /\ last.op = "Dispatch"
    /\ last.method = "GET" /\ last.path = "/api/profile"
    /\ last.resp.ran = <<"AuthMiddleware", "GetProfile">>
    /\ last.resp.mw.next
    /\ last.resp.lookup.called
    /\ last.resp.status = 200

\* The request that just completed presented the kept token before its expiry.
PresentedHeldTokenInTime ==
    /\ PresentedHeldToken
    /\ last.at < held.at + TokenExpiryTicks

\* The stored user with the id that the email of the kept login was registered with.
HeldUser ==
    CHOOSE u \in store : \E r \in RegisteredAs(held.input.Email) : u.ID = r.ID

\* C18 as stated: whatever operations came before, a token a successful
\* Login returned, presented as "Bearer <token>" to GET /api/profile before
\* it expires, is answered 200 with the user registered under the login's
\* email, never 401 or 404.
C18_HeldTokenAlwaysYieldsProfile ==
    PresentedHeldTokenInTime
    => /\ last.resp.status = 200
       /\ last.resp.body = UserJSON(HeldUser)

\* C18, amended: whatever operations came before, a token a successful Login
\* returned, presented as "Bearer <token>" to GET /api/profile before it
\* expires, is never answered 401: the lookup by id is made, and when the
\* database call does not fail the answer is 200 with the user registered
\* under the login's email, who is still stored; when it fails the answer is
\* 404 with the error of the database.
C18_HeldTokenYieldsProfileIfLookupWorks ==
    PresentedHeldTokenInTime
    => /\ last.resp.ran = <<"AuthMiddleware", "GetProfile">>
       /\ last.resp.lookup.called
       /\ \E r \in RegisteredAs(held.input.Email) :
            /\ last.resp.lookup.id = UUIDString(r.ID)
            /\ \E u \in store : u.ID = r.ID /\ u.Email = held.input.Email
       /\ last.resp.lookup.dbErr = Nil
            => /\ last.resp.status = 200
               /\ last.resp.body = UserJSON(HeldUser)
       /\ last.resp.lookup.dbErr # Nil
            => /\ last.resp.status = 404
               /\ last.resp.body = H(last.resp.lookup.dbErr)

\* With two users stored, the token of the second was presented in time and
\* answered 200 with that user.
C18_Witness ==
    /\ PresentedHeldTokenInTime
    /\ Cardinality(store) = 2
    /\ held.lookupUser.ID = 2
    /\ last.resp.status = 200
    /\ last.resp.body.id = UUIDString(2)
    /\ last.resp.body.email = held.input.Email

\* C19: what GetUserByID returned for an id is what FindByID returns for it:
\* the stored user with that id and no error on a hit, no user and
\* gorm.ErrRecordNotFound when no stored user has the id, and no user and the
\* error of the database when the query fails, the error being passed on
\* as it is.
C19_GetUserByIDPassesThrough ==
    (last.op = "Dispatch" /\ last.resp.lookup.called)
    => LET l == last.resp.lookup
           hit == {u \in store : UUIDString(u.ID) = l.id}
       IN /\ [user |-> l.user, err |-> l.err] = FindByID(store, l.id, l.dbErr)
          /\ (l.dbErr = Nil /\ hit # {}) => (l.user \in hit /\ l.err = Nil)
          /\ (l.dbErr = Nil /\ hit = {}) => (l.user = NilUser /\ l.err = ErrRecordNotFound)
          /\ l.dbErr # Nil => (l.user = NilUser /\ l.err = l.dbErr /\ l.err # ErrRecordNotFound)

\* A lookup of an id no stored user has, on a table that is not empty,
\* returned no user and gorm.ErrRecordNotFound.
C19_Witness ==
    /\ last.op = "Dispatch"
    /\ last.resp.lookup.called
    /\ store # {}
    /\ last.resp.lookup.dbErr = Nil
    /\ last.resp.lookup.user = NilUser
    /\ last.resp.lookup.err = ErrRecordNotFound

\* The password hashes in the table.
StoredHashes == {u.PasswordHash : u \in store}

\* The body is the JSON object of the user: id, email, full_name and the two
\* timestamps, no other field, and no text in it is a stored password hash.
IsUserBodyWithoutHash(body, user) ==
    /\ DOMAIN body = {"id", "email", "full_name", "created_at", "updated_at"}
    /\ body.id = UUIDString(user.ID)
    /\ body.email = user.Email
    /\ body.full_name = user.FullName
    /\ body.created_at = user.CreatedAt
    /\ body.updated_at = user.UpdatedAt
    /\ \A f \in {"id", "email", "full_name"} : body[f] \notin StoredHashes

\* C20: the 201 body of a successful Register and the 200 body of GetProfile
\* are the user's id, email, full_name, created_at and updated_at, without
\* the password hash, for a user who is stored with a password hash.
C20_ResponsesOmitPasswordHash ==
    /\ (last.op = "Register" /\ last.err = Nil)
         => /\ RegisterResponse(last.user, last.err).status = 201
            /\ last.user.PasswordHash \in StoredHashes
            /\ IsUserBodyWithoutHash(RegisterResponse(last.user, last.err).body, last.user)
    /\ (last.op = "Profile" /\ last.resp.status = 200)
         => /\ last.resp.lookup.user \in store
            /\ last.resp.lookup.user.PasswordHash # ""
            /\ IsUserBodyWithoutHash(last.resp.body, last.resp.lookup.user)

\* GetProfile answered 200 with the fields of a stored user, whose password
\* hash is not among them.
C20_Witness ==
    /\ last.op = "Profile"
    /\ last.resp.status = 200
    /\ last.resp.lookup.user \in store
    /\ last.resp.lookup.user.PasswordHash \in StoredHashes
    /\ last.resp.body.email = last.resp.lookup.user.Email
    /\ "password_hash" \notin DOMAIN last.resp.body

\* C27: a Register whose password bcrypt refuses, for an email that was not
\* found, returns "failed to hash password" and no user, and Create is not
\* called; a Register whose Create fails returns no user and the error; a
\* Register returns a user only with a nil error, after Create, and that user
\* is in the table.
C27_UserReturnedOnlyIfPersisted ==
    last.op = "Register" =>
        /\ (last.lookupUser = NilUser /\ Len(last.input.Password) > 72)
             => /\ last.hashed
                /\ last.err = "failed to hash password"
                /\ last.user = NilUser
                /\ last.creates = 0
        /\ last.createErr # Nil
             => /\ last.creates = 1
                /\ last.user = NilUser
                /\ last.err = last.createErr
        /\ last.user # NilUser
             => /\ last.err = Nil
                /\ last.creates = 1
                /\ last.createErr = Nil
                /\ last.user \in store
                /\ last.user.Email = last.input.Email

\* A registration of a new email with a password of 73 bytes failed at the
\* hashing, before Create.
C27_Witness ==
    /\ last.op = "Register"
    /\ last.lookupErr = ErrRecordNotFound
    /\ last.input.Password = LongPassword
    /\ last.err = "failed to hash password"
    /\ last.user = NilUser
    /\ last.creates = 0
    /\ \A u \in store : u.Email # last.input.Email

\* C26: the table only grows. A step that completes a Login or a GET
\* /api/profile request (middleware, GetProfile, GetUserByID) leaves the
\* table as it was, and so does a Register that returns an error; a Register
\* that returns a user adds that one user, who was not stored before, and
\* leaves every other row as it was.
C26_StoreOnlyGrows ==
    [][/\ store \subseteq store'
       /\ (last' = last \/ last'.op \in {"Login", "Profile"}) => store' = store
       /\ (last'.op = "Register" /\ last'.err # Nil) => store' = store
       /\ (last' # last /\ last'.op = "Register" /\ last'.err = Nil)
            => /\ last'.user \notin store
               /\ store' = store \cup {last'.user}
               /\ Cardinality(store') = Cardinality(store) + 1]_vars

\* A second user was added to the table and a request for the profile was
\* then served from it.
C26_Witness ==
    /\ last.op = "Profile"
    /\ last.resp.lookup.called
    /\ Cardinality(store) = 2
    /\ Cardinality(registered) = 2

\* The exp claim of the token the client keeps.
HeldExp == held.token[1].tok.claims.exp.n

\* C25: whatever registrations and logins were made since the token was
\* issued, the middleware's verdict on the kept token follows from the token
\* and the clock alone: it lets the request through while the clock is
\* before the token's exp, and answers 401 "invalid token" in every state
\* where the clock has reached or passed it.
C25_VerdictFollowsTokenAndClock ==
    PresentedHeldToken
    => /\ last.at < HeldExp
            => /\ last.resp.mw.next
               /\ last.resp.status # 401
       /\ last.at >= HeldExp
            => /\ Rejected(last.resp.mw, "invalid token")
               /\ last.resp.status = 401
               /\ last.resp.ran = <<"AuthMiddleware">>

\* A token was accepted after a user had registered later than the token
\* was issued.
C25_Witness ==
    /\ PresentedHeldToken
    /\ last.at < HeldExp
    /\ last.at > held.at
    /\ \E u \in store : u.CreatedAt > held.at
    /\ last.resp.mw.next

\* C24 as stated: GetProfile answers 401 "unauthorized" when the context has
\* no user_id; otherwise it calls GetUserByID with the user_id of the
\* context, and answers 404 with the error's message when that fails and 200
\* with the user when it does not.
C24_GetProfileAnswers ==
    (last.op = "Dispatch" /\ "GetProfile" \in Ran)
    => LET id == last.resp.mw.user_id
           l == last.resp.lookup
       IN /\ id = Absent
               => /\ ~l.called
                  /\ last.resp.status = 401
                  /\ last.resp.body = H("unauthorized")
          /\ id # Absent
               => /\ l.called
                  /\ Str(l.id) = id
                  /\ l.err # Nil => (last.resp.status = 404 /\ last.resp.body = H(l.err))
                  /\ l.err = Nil => (last.resp.status = 200 /\ last.resp.body = UserJSON(l.user))

----------------------------------------------------------------------------
(* The claims about the handlers of the POST routes. *)

\* The Login handler served the request that just completed and called the service.
LoginWasCalled ==
    /\ last.op = "Handle"
    /\ last.handler = "Login"
    /\ last.called

FieldText(v) == IF v = Absent THEN "" ELSE v.s

\* The field is absent or a string.
IsText(v) == v = Absent \/ v.t = "str"

\* The handler answered 400 with one write and did not call the service.
RefusedUnbound ==
    /\ ~last.called
    /\ last.out = NoCall
    /\ Len(last.writes) = 1
    /\ last.writes[1].status = 400
    /\ DOMAIN last.writes[1].body = {"error"}

\* C23: the Register handler answers 400 without calling the service when
\* the body's email is empty or ill-formed, its password has fewer than 8
\* characters or its full_name is empty; the Login handler answers 400
\* without calling the service when the email is empty or ill-formed or the
\* password is empty.
C23_InvalidBodyIsRefused ==
    (last.op = "Handle" /\ last.body # Malformed)
    => LET b == last.body
           badEmail == IsText(b.email) /\ ~IsEmail(FieldText(b.email))
       IN /\ (/\ last.handler = "Register"
               /\ \/ badEmail
                  \/ IsText(b.password) /\ Len(FieldText(b.password)) < 8
                  \/ IsText(b.full_name) /\ FieldText(b.full_name) = "")
              => RefusedUnbound
          /\ (/\ last.handler = "Login"
               /\ \/ badEmail
                  \/ IsText(b.password) /\ FieldText(b.password) = "")
              => RefusedUnbound

\* A registration whose only fault is a password of seven characters was
\* answered 400 without a call of the service.
C23_Witness ==
    /\ last.op = "Handle"
    /\ last.handler = "Register"
    /\ last.body # Malformed
    /\ last.body.email = Str("b@x.com")
    /\ last.body.password = Str("pass123")
    /\ last.body.full_name = Str("A")
    /\ RefusedUnbound
    /\ last.bound.err.failed = <<[field |-> "Password", tag |-> "min"]>>

----------------------------------------------------------------------------
(* The claims about the configuration. *)

\* The value JWT_SECRET has for LoadConfig: that of the process, or else
\* that of a .env file that could be read, or else none.
SecretInEnvironment ==
    IF last.env["JWT_SECRET"] # Absent THEN last.env["JWT_SECRET"]
    ELSE IF last.dotenv.state = "file" THEN Str(last.dotenv.JWT_SECRET)
    ELSE Absent

\* LoadConfig returned an error and no configuration.
LoadFailed == last.config = NilConfig /\ last.err # Nil

\* LoadConfig returned a configuration with this secret, a token expiry of
\* 24 hours, and no error.
LoadedWithSecret(secret) ==
    /\ last.err = Nil
    /\ last.config # NilConfig
    /\ last.config.JWTSecret = secret
    /\ last.config.TokenExpiryDur = 24

\* C22 as stated: LoadConfig returns an error and no configuration when
\* JWT_SECRET is unset or is the placeholder "your-secret-key", and in every
\* other case a configuration with the secret of the environment and a
\* token expiry of 24 hours.
C22_LoadConfigFailsOnlyOnSecret ==
    last.op = "LoadConfig" =>
        IF SecretInEnvironment \in {Absent, Str(PlaceholderSecret)}
        THEN LoadFailed
        ELSE LoadedWithSecret(SecretInEnvironment.s)

\* C22, amended: LoadConfig returns an error and no configuration when
\* JWT_SECRET is unset or is the placeholder "your-secret-key", and also when
\* a .env file exists and cannot be loaded; in every other case it returns a
\* configuration with the secret of the environment and a token expiry of
\* 24 hours.
C22_LoadConfigFailsOnSecretOrDotEnv ==
    last.op = "LoadConfig" =>
        IF SecretInEnvironment \in {Absent, Str(PlaceholderSecret)}
           \/ last.dotenv.state = "broken"
        THEN LoadFailed
        ELSE LoadedWithSecret(SecretInEnvironment.s)

\* LoadConfig refused a process whose JWT_SECRET is the placeholder, set in
\* the environment itself.
C22_Witness ==
    /\ last.op = "LoadConfig"
    /\ last.env["JWT_SECRET"] = Str(PlaceholderSecret)
    /\ last.dotenv.state # "broken"
    /\ LoadFailed
    /\ last.err = "jwt secret must be set in environment"

\* C30 as stated: LoadConfig returns no configuration whose JWTSecret is the
\* empty string, and fails when JWT_SECRET is set to the empty string, as it
\* does when JWT_SECRET is unset.
C30_EmptySecretIsRefused ==
    last.op = "LoadConfig" =>
        /\ last.config # NilConfig => last.config.JWTSecret # ""
        /\ last.env["JWT_SECRET"] = Str("") => LoadFailed

====
